---- MODULE Spec2Model ----
(***************************************************************************)
(* State-machine model of the AI Tutor backend (src/main.py,               *)
(* src/schemas.py): the HTTP handlers over the document store.             *)
(*                                                                         *)
(* Python values are represented as follows.                               *)
(*   - a str is a TLA+ string; an uploaded file name is a sequence of      *)
(*     one-character strings so that lower(), endswith() and replace()     *)
(*     can be computed character by character;                             *)
(*   - a value of an Optional type is a sequence of length <= 1: None is   *)
(*     <<>> and a present value v is <<v>>;                                *)
(*   - a document is a record; a field a document does not carry is not    *)
(*     in its DOMAIN; its native identifier is [oid |-> n];                *)
(*   - a collection is the sequence of its documents in insertion order;   *)
(*   - datetime.utcnow() is the token "utcnow": the model keeps that a     *)
(*     timestamp was written, not its value.                               *)
(*                                                                         *)
(* resp is the response of the last request served.  calls is a history    *)
(* variable: the upserts served so far.                                    *)
(***************************************************************************)
EXTENDS Integers, Sequences, FiniteSets, TLC

VARIABLES subject, book, lesson, progress, uploads, resp, procs, calls

vars == <<subject, book, lesson, progress, uploads, resp, procs, calls>>

(***************************************************************************)
(* Bounds of the model.                                                    *)
(***************************************************************************)
MaxDocs == 2
MaxLessons == 2
MaxStemLen == 1
NumProcs == 2

(***************************************************************************)
(* Optional values.                                                        *)
(***************************************************************************)
None == <<>>

Some(v) == <<v>>

\* Python truthiness of an Optional[str]: None and "" are falsy.
Falsy(o) == o = None \/ o = Some("")

(***************************************************************************)
(* Input domains.                                                          *)
(***************************************************************************)
UserIds == {"u1", "u2"}

\* what the caller may send as x_user_id
XUserIds == {None, Some("")} \cup {Some(u) : u \in UserIds}

\* a body's user_id is a required str, which may be empty
BodyUserIds == {""} \cup UserIds

SubjectIds == {"s1", "s2"}

BookIds == {"b1", "b2"}

(***************************************************************************)
(* The document store.                                                     *)
(***************************************************************************)
\* the identifier the store generates for the next document of a collection
NewOid(coll) == [oid |-> Len(coll) + 1]

\* str(inserted_id)
StrOid(id) == ToString(id.oid)

insert_one(coll, doc) == Append(coll, [id |-> NewOid(coll)] @@ doc)

create_document(coll, doc) == insert_one(coll, doc)

\* a document matches a filter when it carries every key of the filter with
\* the filter's value
Matches(doc, filter) ==
    \A k \in DOMAIN filter : k \in DOMAIN doc /\ doc[k] = filter[k]

\* the matching documents, in the collection's order
get_documents(coll, filter) == SelectSeq(coll, LAMBDA d : Matches(d, filter))

\* the first matching document, None when there is none
find_one(coll, filter) ==
    LET found == get_documents(coll, filter)
    IN  IF found = <<>> THEN None ELSE Some(Head(found))

\* {"$set": updates} applied to the first document matching the filter
update_one(coll, filter, updates) ==
    LET hit == {i \in 1..Len(coll) : Matches(coll[i], filter)}
    IN  IF hit = {} THEN coll
        ELSE LET first == CHOOSE i \in hit : \A j \in hit : i <= j
             IN  [coll EXCEPT ![first] = updates @@ coll[first]]

(***************************************************************************)
(* Responses.                                                              *)
(***************************************************************************)
Ok(op, body) == [op |-> op, status |-> 200, body |-> body]

HTTPException(op, code, detail) == [op |-> op, status |-> code, detail |-> detail]

\* an exception no handler catches: the framework answers 500
Unhandled(op, exc) == [op |-> op, status |-> 500, detail |-> exc]

get_current_user_id(x_user_id) == x_user_id

Init ==
    /\ subject = <<>>
    /\ book = <<>>
    /\ lesson = <<>>
    /\ progress = <<>>
    /\ uploads = {}
    /\ resp = [op |-> "start", status |-> 0]
    /\ procs = [p \in 1..NumProcs |-> [pc |-> "idle"]]
    /\ calls = [pair \in UserIds \X BookIds |-> [n |-> 0, last |-> None]]

(***************************************************************************)
(* Subjects.                                                               *)
(***************************************************************************)
SubjectBodies ==
    [user_id : BodyUserIds, name : {"Chemistry", "Physics"}, description : {None, Some("intro")}]

create_subject_nocheck(x_user_id, body) ==
    LET dep == get_current_user_id(x_user_id)
        user_id == IF Falsy(dep) THEN body.user_id ELSE dep[1]
        payload == [body EXCEPT !.user_id = user_id]
    IN  /\ subject' = create_document(subject, payload)
        /\ resp' = Ok("create_subject", StrOid(NewOid(subject)))
        /\ UNCHANGED <<book, lesson, progress, uploads, procs, calls>>

create_subject(x_user_id, body) ==
    LET dep == get_current_user_id(x_user_id)
        user_id == IF Falsy(dep) THEN body.user_id ELSE dep[1]
        payload == [body EXCEPT !.user_id = user_id]
    IN  IF user_id = ""
        THEN /\ resp' = HTTPException("create_subject", 401, "Missing user id")
             /\ UNCHANGED <<subject, book, lesson, progress, uploads, procs, calls>>
        ELSE /\ subject' = create_document(subject, payload)
             /\ resp' = Ok("create_subject", StrOid(NewOid(subject)))
             /\ UNCHANGED <<book, lesson, progress, uploads, procs, calls>>

list_subjects_unscoped(x_user_id) ==
    LET dep == get_current_user_id(x_user_id)
    IN  /\ resp' = IF Falsy(dep)
                   THEN HTTPException("list_subjects", 401, "Missing user id")
                   ELSE Ok("list_subjects", get_documents(subject, <<>>))
        /\ UNCHANGED <<subject, book, lesson, progress, uploads, procs, calls>>

list_subjects(x_user_id) ==
    LET dep == get_current_user_id(x_user_id)
    IN  /\ resp' = IF Falsy(dep)
                   THEN HTTPException("list_subjects", 401, "Missing user id")
                   ELSE Ok("list_subjects", get_documents(subject, [user_id |-> dep[1]]))
        /\ UNCHANGED <<subject, book, lesson, progress, uploads, procs, calls>>

ListSubjects == \E x \in XUserIds : list_subjects(x)

(***************************************************************************)
(* Books and PDF upload.                                                   *)
(***************************************************************************)
UPLOAD_DIR == "uploads"

DotPdf == <<".", "p", "d", "f">>

UpperCase == <<"D", "F", "N", "P", "T", "X">>

LowerCase == <<"d", "f", "n", "p", "t", "x">>

\* str.lower() on one character
LowerChar(c) ==
    IF \E i \in 1..Len(UpperCase) : UpperCase[i] = c
    THEN LowerCase[CHOOSE i \in 1..Len(UpperCase) : UpperCase[i] = c]
    ELSE c

\* str.lower()
lower(s) == [i \in 1..Len(s) |-> LowerChar(s[i])]

\* str.endswith(suffix)
endswith(s, suffix) ==
    /\ Len(s) >= Len(suffix)
    /\ SubSeq(s, Len(s) - Len(suffix) + 1, Len(s)) = suffix

\* whether old occurs in s at position i
OccursAt(s, old, i) ==
    /\ i + Len(old) - 1 <= Len(s)
    /\ SubSeq(s, i, i + Len(old) - 1) = old

RECURSIVE ReplaceFrom(_, _, _, _)
\* str.replace(old, new) from position i on: every occurrence of old, found
\* left to right without overlap, becomes new
ReplaceFrom(s, old, new, i) ==
    IF i > Len(s) THEN <<>>
    ELSE IF OccursAt(s, old, i)
         THEN new \o ReplaceFrom(s, old, new, i + Len(old))
         ELSE <<s[i]>> \o ReplaceFrom(s, old, new, i + 1)

replace(s, old, new) == ReplaceFrom(s, old, new, 1)

\* the upload directory entry f"{book_id}-{file.filename}" under UPLOAD_DIR
FilePath(book_id, filename) ==
    [dir |-> UPLOAD_DIR, book_id |-> book_id, filename |-> filename]

\* uuid.uuid4(): an identifier no earlier upload was given
uuid4 == Cardinality(uploads) + 1

Book(user_id, subject_id, title, original_filename, file_path, pages, num_pages) ==
    [user_id |-> user_id, subject_id |-> subject_id, title |-> title,
     original_filename |-> Some(original_filename), file_path |-> Some(file_path),
     pages |-> pages, num_pages |-> num_pages]

upload_book_write_first(user_id, subject_id, filename) ==
    LET book_id == uuid4
        fpath == FilePath(book_id, filename)
        doc == Book(user_id, subject_id, replace(filename, DotPdf, <<>>),
                    filename, fpath, None, None)
    IN  IF ~endswith(lower(filename), DotPdf)
        THEN /\ uploads' = uploads \cup {fpath}
             /\ resp' = HTTPException("upload_book", 400, "Only PDF files are supported")
             /\ UNCHANGED <<subject, book, lesson, progress, procs, calls>>
        ELSE /\ uploads' = uploads \cup {fpath}
             /\ book' = create_document(book, doc)
             /\ resp' = Ok("upload_book", [id |-> StrOid(NewOid(book)), file_path |-> fpath])
             /\ UNCHANGED <<subject, lesson, progress, procs, calls>>

upload_book(user_id, subject_id, filename) ==
    LET book_id == uuid4
        fpath == FilePath(book_id, filename)
        doc == Book(user_id, subject_id, replace(filename, DotPdf, <<>>),
                    filename, fpath, None, None)
    IN  IF ~endswith(lower(filename), DotPdf)
        THEN /\ resp' = HTTPException("upload_book", 400, "Only PDF files are supported")
             /\ UNCHANGED <<subject, book, lesson, progress, uploads, procs, calls>>
        ELSE /\ uploads' = uploads \cup {fpath}
             /\ book' = create_document(book, doc)
             /\ resp' = Ok("upload_book", [id |-> StrOid(NewOid(book)), file_path |-> fpath])
             /\ UNCHANGED <<subject, lesson, progress, procs, calls>>

list_books(subject_id, x_user_id) ==
    LET dep == get_current_user_id(x_user_id)
    IN  /\ resp' = IF Falsy(dep)
                   THEN HTTPException("list_books", 401, "Missing user id")
                   ELSE Ok("list_books",
                           get_documents(book, [user_id |-> dep[1], subject_id |-> subject_id]))
        /\ UNCHANGED <<subject, book, lesson, progress, uploads, procs, calls>>

\* file names: a stem of at most MaxStemLen characters followed by an ending
StemChars == {"n"}

RECURSIVE SeqsUpTo(_, _)
SeqsUpTo(S, n) ==
    IF n = 0 THEN {<<>>}
    ELSE LET shorter == SeqsUpTo(S, n - 1)
         IN  shorter \cup {Append(t, c) : t \in shorter, c \in S}

Stems == SeqsUpTo(StemChars, MaxStemLen)

Endings ==
    { <<>>,
      <<".", "p", "d", "f">>,
      <<".", "P", "D", "F">>,
      <<".", "P", "d", "f">>,
      <<".", "t", "x", "t">>,
      <<"p", "d", "f">>,
      <<".", "p", "d", "f", "x">>,
      <<".", "p", "d", "f", ".", "t", "x", "t">>,
      <<".", "p", "d", "f", "n", ".", "p", "d", "f">> }

Filenames == {stem \o ending : stem \in Stems, ending \in Endings}

UploadBook ==
    \E file \in Filenames :
        /\ upload_book("u1", "s1", file)
        /\ Len(book') <= MaxDocs

\* list_books for any caller and subject
AllBooks == \E x \in XUserIds, s \in SubjectIds : list_books(s, x)

NextBooks == UploadBook \/ AllBooks

SpecBooks == Init /\ [][NextBooks]_vars

(***************************************************************************)
(* Progress.                                                               *)
(***************************************************************************)
\* the values a progress body carries besides its user and book
ProgressValues ==
    { [subject_id |-> "s1", last_covered_page |-> Some(7),
       last_covered_line |-> Some(3), notes |-> Some("n")],
      [subject_id |-> "s2", last_covered_page |-> None,
       last_covered_line |-> None, notes |-> None],
      [subject_id |-> "s1", last_covered_page |-> Some(8),
       last_covered_line |-> None, notes |-> Some("m")] }

ProgressBodies ==
    {[user_id |-> u, book_id |-> b] @@ v :
        u \in BodyUserIds, b \in BookIds, v \in ProgressValues}

\* lines 158-159: the caller's identity, else the body's
ResolveUser(x_user_id, body) ==
    LET dep == get_current_user_id(x_user_id)
    IN  IF Falsy(dep) THEN body.user_id ELSE dep[1]

\* line 164
FindProgress(user_id, book_id) ==
    find_one(progress, [user_id |-> user_id, book_id |-> book_id])

WriteProgress_always_insert(existing, payload) == create_document(progress, payload)

\* lines 167-172: the collection after the write that follows the lookup
WriteProgress(existing, payload) ==
    IF existing # None
    THEN update_one(progress, [id |-> existing[1].id],
                    [updated_at |-> "utcnow"] @@ payload)
    ELSE create_document(progress, payload)

\* lines 169, 172: the identifier returned
WrittenId(existing) ==
    IF existing # None THEN StrOid(existing[1].id) ELSE StrOid(NewOid(progress))

\* history: per (user_id, book_id), whether no, one or more upserts were
\* served for it, and the payload of the last one
Served(payload) ==
    LET pair == <<payload.user_id, payload.book_id>>
    IN  [calls EXCEPT ![pair] =
            [n |-> IF calls[pair].n = 0 THEN 1 ELSE 2, last |-> Some(payload)]]

\* the whole handler, run without interruption
upsert_progress(x_user_id, body) ==
    LET user_id == ResolveUser(x_user_id, body)
        existing == FindProgress(user_id, body.book_id)
        payload == [body EXCEPT !.user_id = user_id]
    IN  IF user_id = ""
        THEN /\ resp' = HTTPException("upsert_progress", 401, "Missing user id")
             /\ UNCHANGED <<subject, book, lesson, progress, uploads, procs, calls>>
        ELSE /\ progress' = WriteProgress(existing, payload)
             /\ resp' = Ok("upsert_progress", WrittenId(existing))
             /\ calls' = Served(payload)
             /\ UNCHANGED <<subject, book, lesson, uploads, procs>>

get_progress(book_id, x_user_id) ==
    LET dep == get_current_user_id(x_user_id)
    IN  /\ resp' = IF Falsy(dep)
                   THEN HTTPException("get_progress", 401, "Missing user id")
                   ELSE Ok("get_progress",
                           get_documents(progress, [user_id |-> dep[1], book_id |-> book_id]))
        /\ UNCHANGED <<subject, book, lesson, progress, uploads, procs, calls>>

UpsertProgress ==
    \E x \in XUserIds, body \in ProgressBodies :
        /\ upsert_progress(x, body)
        /\ Len(progress') <= MaxDocs

GetProgress == \E x \in XUserIds, b \in BookIds : get_progress(b, x)

NextProgress == UpsertProgress \/ GetProgress

SpecProgress == Init /\ [][NextProgress]_vars

(***************************************************************************)
(* Concurrent upserts: each request is served by its own worker, and the   *)
(* lookup (line 164) and the write (lines 168, 171) are separate store     *)
(* operations between which other requests' operations may run.            *)
(***************************************************************************)
Procs == 1..NumProcs

\* lines 158-166 of request p: resolve the user, look the record up
upsert_find(p, x_user_id, body) ==
    LET user_id == ResolveUser(x_user_id, body)
        existing == FindProgress(user_id, body.book_id)
        payload == [body EXCEPT !.user_id = user_id]
    IN  /\ procs[p].pc = "idle"
        /\ IF user_id = ""
           THEN /\ resp' = HTTPException("upsert_progress", 401, "Missing user id")
                /\ UNCHANGED procs
           ELSE /\ procs' = [procs EXCEPT ![p] =
                               [pc |-> "found", existing |-> existing, payload |-> payload]]
                /\ UNCHANGED resp
        /\ UNCHANGED <<subject, book, lesson, progress, uploads, calls>>

\* lines 167-172 of request p: write with what the lookup returned
upsert_write(p) ==
    /\ procs[p].pc = "found"
    /\ progress' = WriteProgress(procs[p].existing, procs[p].payload)
    /\ resp' = Ok("upsert_progress", WrittenId(procs[p].existing))
    /\ procs' = [procs EXCEPT ![p] = [pc |-> "idle"]]
    /\ calls' = Served(procs[p].payload)
    /\ UNCHANGED <<subject, book, lesson, uploads>>

ConcBodies == {b \in ProgressBodies : b.book_id = "b1" /\ b.subject_id = "s1"}

UpsertFind ==
    \E p \in Procs, x \in {None, Some("u1")}, body \in ConcBodies :
        upsert_find(p, x, body)

UpsertWrite ==
    \E p \in Procs :
        /\ upsert_write(p)
        /\ Len(progress') <= MaxDocs

NextConc == UpsertFind \/ UpsertWrite

SpecConc == Init /\ [][NextConc]_vars

(***************************************************************************)
(* Lessons.                                                                *)
(***************************************************************************)
LessonRequests ==
    [user_id : {"", "u1"}, subject_id : {"s1"}, book_id : {"b1"},
     prompt : {"Explain chapter 1"}]

\* schemas.Lesson with the defaults of the fields request_lesson leaves out
Lesson(user_id, subject_id, book_id, prompt, status) ==
    [user_id |-> user_id, subject_id |-> subject_id, book_id |-> book_id,
     request_id |-> None, prompt |-> prompt, status |-> status,
     input_excerpt |-> None, explanation |-> None, analogies |-> None,
     error |-> None, scheduled_at |-> None]

request_lesson(x_user_id, req) ==
    LET user_id == ResolveUser(x_user_id, req)
        doc == Lesson(user_id, req.subject_id, req.book_id, req.prompt, "pending")
    IN  IF user_id = ""
        THEN /\ resp' = HTTPException("request_lesson", 401, "Missing user id")
             /\ UNCHANGED <<subject, book, lesson, progress, uploads, procs, calls>>
        ELSE /\ lesson' = create_document(lesson, doc)
             /\ resp' = Ok("request_lesson",
                           [id |-> StrOid(NewOid(lesson)), status |-> "queued"])
             /\ UNCHANGED <<subject, book, progress, uploads, procs, calls>>

OidDigits == <<"1", "2", "3", "4", "5", "6", "7", "8", "9">>

\* the serializer's to_bson: the native identifier a well-formed identifier
\* string denotes; any other string stays a string-typed identifier
to_bson(lesson_id) ==
    IF \E n \in DOMAIN OidDigits : OidDigits[n] = lesson_id
    THEN [oid |-> CHOOSE n \in DOMAIN OidDigits : OidDigits[n] = lesson_id]
    ELSE [str |-> lesson_id]

\* lines 198-201: by native identifier, else by string identifier
FindLesson(lesson_id) ==
    LET doc == find_one(lesson, [id |-> to_bson(lesson_id)])
    IN  IF doc = None THEN find_one(lesson, [id |-> [str |-> lesson_id]]) ELSE doc

Updates_full_replace(patch) ==
    [k \in DOMAIN patch \cup {"updated_at"} |->
        IF k = "updated_at" THEN "utcnow"
        ELSE IF k = "status" THEN (IF patch[k] = None THEN "pending" ELSE patch[k][1])
        ELSE patch[k]]

\* lines 203-210: the entries that are not None, and the timestamp
Updates(patch) ==
    LET present == {k \in DOMAIN patch : patch[k] # None}
    IN  [k \in present \cup {"updated_at"} |->
            IF k = "updated_at" THEN "utcnow"
            ELSE IF k = "status" THEN patch[k][1]
            ELSE patch[k]]

patch_lesson_guarded(lesson_id, patch) ==
    LET doc == FindLesson(lesson_id)
        applied == IF doc # None /\ doc[1].status \in {"complete", "error"}
                   THEN [patch EXCEPT !.status = None] ELSE patch
    IN  IF doc = None
        THEN /\ resp' = Unhandled("patch_lesson", "TypeError")
             /\ UNCHANGED <<subject, book, lesson, progress, uploads, procs, calls>>
        ELSE /\ lesson' = update_one(lesson, [id |-> doc[1].id], Updates(applied))
             /\ resp' = Ok("patch_lesson", [ok |-> TRUE])
             /\ UNCHANGED <<subject, book, progress, uploads, procs, calls>>

patch_lesson(lesson_id, patch) ==
    LET doc == FindLesson(lesson_id)
    IN  IF doc = None
        THEN \* doc["_id"] on None
             /\ resp' = Unhandled("patch_lesson", "TypeError")
             /\ UNCHANGED <<subject, book, lesson, progress, uploads, procs, calls>>
        ELSE /\ lesson' = update_one(lesson, [id |-> doc[1].id], Updates(patch))
             /\ resp' = Ok("patch_lesson", [ok |-> TRUE])
             /\ UNCHANGED <<subject, book, progress, uploads, procs, calls>>

NoPatch ==
    [status |-> None, input_excerpt |-> None, explanation |-> None,
     analogies |-> None, error |-> None]

\* what the external worker sends: nothing, a status alone (one of them no
\* status of schemas.Lesson), an excerpt with its result, a failure
Patches ==
    { NoPatch,
      [NoPatch EXCEPT !.status = Some("pending")],
      [NoPatch EXCEPT !.status = Some("complete")],
      [NoPatch EXCEPT !.status = Some("bogus")],
      [NoPatch EXCEPT !.input_excerpt = Some("excerpt"),
                      !.explanation = Some("because"),
                      !.analogies = Some(<<"like water">>)],
      [NoPatch EXCEPT !.status = Some("error"), !.error = Some("boom")] }

\* identifier strings: those of the lessons there can be, one more, and one
\* that is no identifier
LessonIds == {ToString(n) : n \in 1..(MaxLessons + 1)} \cup {"nope"}

RequestLesson ==
    \E x \in {None, Some("u1")}, req \in LessonRequests :
        /\ request_lesson(x, req)
        /\ Len(lesson') <= MaxLessons

PatchLesson == \E id \in LessonIds, patch \in Patches : patch_lesson(id, patch)

NextLessons == RequestLesson \/ PatchLesson

SpecLessons == Init /\ [][NextLessons]_vars

(***************************************************************************)
(* Properties of the lesson handlers.                                      *)
(***************************************************************************)
\* the lessons whose identifier, as request_lesson returned it, is id
Named(id) == {k \in 1..Len(lesson) : StrOid(lesson[k].id) = id}

PatchFields == {"status", "input_excerpt", "explanation", "analogies", "error"}

\* C3: patch_lesson on an existing lesson changes, of that lesson, only
\* updated_at and the fields the request carries (non-null); it changes no
\* other lesson and neither creates nor removes one.
C3_SparsePatch ==
    [][\/ lesson' = lesson
       \/ \A t \in 1..Len(lesson), patch \in Patches :
             patch_lesson(StrOid(lesson[t].id), patch) =>
                 /\ Len(lesson') = Len(lesson)
                 /\ \A k \in 1..Len(lesson) :
                       IF k = t
                       THEN /\ DOMAIN lesson'[k] = DOMAIN lesson[k] \cup {"updated_at"}
                            /\ \A f \in DOMAIN lesson[k] :
                                  \/ f = "updated_at"
                                  \/ f \in PatchFields /\ patch[f] # None
                                  \/ lesson'[k][f] = lesson[k][f]
                       ELSE lesson'[k] = lesson[k]]_vars

\* a lesson that got its explanation and analogies from one patch and was
\* then patched with a status alone
C3_Witness ==
    /\ resp.op = "patch_lesson"
    /\ resp.status = 200
    /\ \E k \in 1..Len(lesson) :
          /\ lesson[k].status = "complete"
          /\ lesson[k].explanation = Some("because")
          /\ lesson[k].analogies = Some(<<"like water">>)
          /\ lesson[k].error = Some("boom")
    /\ Len(lesson) = MaxLessons

\* C4: patch_lesson with an identifier that resolves to no lesson is a
\* silent no-op: no error is raised and the lessons are unchanged.
C4_SilentNoOp ==
    [][\A id \in LessonIds, patch \in Patches :
          (Named(id) = {} /\ patch_lesson(id, patch)) =>
              /\ resp'.status = 200
              /\ lesson' = lesson]_vars

LessonStatuses == {"pending", "processing", "complete", "error"}

\* C9: every lesson is created pending and every lesson's status is always
\* one of pending, processing, complete, error.
C9_StatusInLiteral ==
    /\ (resp.op = "request_lesson" /\ resp.status = 200)
          => lesson[Len(lesson)].status = "pending"
    /\ \A k \in 1..Len(lesson) : lesson[k].status \in LessonStatuses

\* C10: a patch that carries a status sets it whatever the lesson's status
\* was, a complete or failed lesson included; any other step leaves every
\* status alone.  Hence a lesson's status is that of the last patch that
\* carried one.
C10_NoTransitionTable ==
    [][/\ (resp'.op = "patch_lesson" /\ resp'.status = 200) =>
             \A t \in 1..Len(lesson), patch \in Patches :
                patch_lesson(StrOid(lesson[t].id), patch) =>
                    \A k \in 1..Len(lesson) :
                       lesson'[k].status =
                           IF k = t /\ patch.status # None
                           THEN patch.status[1] ELSE lesson[k].status
       /\ \A k \in 1..Len(lesson) :
             lesson'[k].status # lesson[k].status =>
                 resp'.op = "patch_lesson" /\ resp'.status = 200]_vars

\* a lesson that was failed (only the failure patch writes error, and it
\* sets the status error) is pending again after a later patch
C10_Witness ==
    /\ resp.op = "patch_lesson"
    /\ resp.status = 200
    /\ \E k \in 1..Len(lesson) :
          /\ lesson[k].error = Some("boom")
          /\ lesson[k].status = "pending"

(***************************************************************************)
(* The three user-scoped collections together: subjects, books and         *)
(* progress records of several users in one store.                         *)
(***************************************************************************)
NotesPdf == <<"n", "o", "t", "e", "s", ".", "p", "d", "f">>

Stored == Len(subject) + Len(book) + Len(progress)

AddSubject ==
    \E x \in XUserIds, body \in SubjectBodies :
        /\ create_subject(x, body)
        /\ Len(subject') + Len(book') + Len(progress') <= MaxDocs

AddBook ==
    \E u \in UserIds, s \in SubjectIds :
        /\ upload_book(u, s, NotesPdf)
        /\ Len(subject') + Len(book') + Len(progress') <= MaxDocs

AddProgress ==
    \E x \in XUserIds, body \in ProgressBodies :
        /\ body.subject_id = "s2"
        /\ upsert_progress(x, body)
        /\ Len(subject') + Len(book') + Len(progress') <= MaxDocs

Next == AddSubject \/ ListSubjects \/ AddBook \/ AllBooks \/ AddProgress \/ GetProgress

Spec == Init /\ [][Next]_vars

(***************************************************************************)
(* Properties of upsert_progress.                                          *)
(***************************************************************************)
Pairs == UserIds \X BookIds

RecordsOf(pair) ==
    {i \in 1..Len(progress) :
        progress[i].user_id = pair[1] /\ progress[i].book_id = pair[2]}

\* C1: the progress collection never holds two records of one
\* (user_id, book_id) pair, concurrent upserts included.
C1_OneRecordPerPair == \A pair \in Pairs : Cardinality(RecordsOf(pair)) <= 1

\* C2: once two upserts were served one after the other for a pair that had
\* no record, the pair has exactly one record, which carries the second
\* upsert's subject_id, last_covered_page, last_covered_line and notes; the
\* second upsert added no record (there are as many records as pairs served).
C2_SecondUpsertOverwrites ==
    /\ \A pair \in Pairs :
          calls[pair].n = 2 =>
              /\ Cardinality(RecordsOf(pair)) = 1
              /\ \A i \in RecordsOf(pair) :
                    LET second == calls[pair].last[1]
                    IN  /\ progress[i].subject_id = second.subject_id
                        /\ progress[i].last_covered_page = second.last_covered_page
                        /\ progress[i].last_covered_line = second.last_covered_line
                        /\ progress[i].notes = second.notes
    /\ Len(progress) = Cardinality({pair \in Pairs : calls[pair].n > 0})

\* a pair upserted twice, the second time with null page, line and notes
C2_Witness ==
    \E pair \in Pairs :
        /\ calls[pair].n = 2
        /\ calls[pair].last[1].notes = None
        /\ resp.op = "upsert_progress"
        /\ resp.status = 200
        /\ Len(progress) = 2

(***************************************************************************)
(* Properties of the subject handlers and of the user-scoped lists.        *)
(***************************************************************************)
\* neither the caller's identity nor the body gives a non-empty user id
NoUserId(x_user_id, body) ==
    /\ x_user_id = None \/ x_user_id = Some("")
    /\ body.user_id = ""

\* C5: create_subject without a resolvable user id answers 401 and writes
\* nothing, in the subject collection or anywhere else.
C5_NoUserNoWrite ==
    [][\A x \in XUserIds, body \in SubjectBodies :
          (NoUserId(x, body) /\ create_subject(x, body)) =>
              /\ resp'.status = 401
              /\ UNCHANGED <<subject, book, lesson, progress, uploads>>]_vars

\* create_subject was refused while the store held documents
C5_Witness ==
    /\ resp.op = "create_subject"
    /\ resp.status = 401
    /\ subject # <<>>
    /\ Stored = MaxDocs

\* every document of a listing belongs to user u
AllOwnedBy(docs, u) == \A i \in 1..Len(docs) : docs[i].user_id = u

\* C6: every document list_subjects, list_books and get_progress return to
\* caller u has user_id = u.
C6_TenantIsolation ==
    [][\A x \in XUserIds :
          /\ (list_subjects(x) /\ resp'.status = 200)
                => AllOwnedBy(resp'.body, x[1])
          /\ \A s \in SubjectIds :
                (list_books(s, x) /\ resp'.status = 200)
                    => AllOwnedBy(resp'.body, x[1])
          /\ \A b \in BookIds :
                (get_progress(b, x) /\ resp'.status = 200)
                    => AllOwnedBy(resp'.body, x[1])]_vars

\* a listing of subjects that left out another user's subject
C6_Witness ==
    /\ resp.op = "list_subjects"
    /\ resp.status = 200
    /\ resp.body # <<>>
    /\ \E i \in 1..Len(subject) : subject[i].user_id # resp.body[1].user_id

(***************************************************************************)
(* Properties of upload_book.                                              *)
(***************************************************************************)
\* the name ends in .pdf, in whatever case
PdfName(filename) ==
    LET n == Len(filename)
    IN  /\ n >= 4
        /\ filename[n - 3] = "."
        /\ filename[n - 2] \in {"p", "P"}
        /\ filename[n - 1] \in {"d", "D"}
        /\ filename[n] \in {"f", "F"}

\* C7: an upload whose name does not end in .pdf answers 400, writes no file
\* and creates no book.
C7_NonPdfRejected ==
    [][\A file \in Filenames :
          (~PdfName(file) /\ upload_book("u1", "s1", file)) =>
              /\ resp'.status = 400
              /\ uploads' = uploads
              /\ book' = book]_vars

\* an upload was refused after another had been stored
C7_Witness ==
    /\ resp.op = "upload_book"
    /\ resp.status = 400
    /\ Len(book) = MaxDocs
    /\ Cardinality(uploads) = MaxDocs

\* C8: an accepted upload creates exactly one book, of the given user and
\* subject, with pages and num_pages null, whose title is the file name
\* without its .pdf suffix.
C8_TitleIsStem ==
    [][\A file \in Filenames :
          (PdfName(file) /\ upload_book("u1", "s1", file)) =>
              /\ Len(book') = Len(book) + 1
              /\ SubSeq(book', 1, Len(book)) = book
              /\ LET new == book'[Len(book')]
                 IN  /\ new.user_id = "u1"
                     /\ new.subject_id = "s1"
                     /\ new.pages = None
                     /\ new.num_pages = None
                     /\ new.title = SubSeq(file, 1, Len(file) - 4)]_vars

====
